---- MODULE Spec2Model ----
(***************************************************************************)
(* A model of src/src/chatmodel.ts: the ChatModel client (query and        *)
(* completions), its option overlay, its retry / rate-limit composition,   *)
(* its response validation and its choice-text extraction.                 *)
(*                                                                         *)
(* JavaScript values are tagged records [t, v]; objects keep their         *)
(* properties in insertion order as a sequence of [k, val] pairs, strings  *)
(* are TLA+ strings.                                                       *)
(***************************************************************************)
EXTENDS Integers, Sequences, FiniteSets, TLC

(***************************************************************************)
(* Bounds of the model.                                                    *)
(***************************************************************************)
MaxParts == 3
MaxChoices == 2
MaxAggChoices == 3
MaxAttempts == 3
NumCalls == 2

(***************************************************************************)
(* JavaScript values.                                                      *)
(***************************************************************************)
Undef == [t |-> "undefined", v |-> ""]
Null == [t |-> "null", v |-> ""]
Str(s) == [t |-> "string", v |-> s]
Num(n) == [t |-> "number", v |-> n]
Arr(items) == [t |-> "array", v |-> items]
Obj(props) == [t |-> "object", v |-> props]
P(key, x) == [k |-> key, val |-> x]

\* typeof x
TypeOf(x) ==
  CASE x.t = "undefined" -> "undefined"
    [] x.t = "string" -> "string"
    [] x.t = "number" -> "number"
    [] OTHER -> "object"

\* Array.isArray(x)
IsArray(x) == x.t = "array"

\* x == null (null or undefined): what ?? and ?. test
Nullish(x) == x.t \in {"undefined", "null"}

\* the truthiness of x, as if (x) and !x read it
Truthy(x) ==
  CASE x.t \in {"undefined", "null"} -> FALSE
    [] x.t = "string" -> x.v # ""
    [] x.t = "number" -> x.v # 0
    [] OTHER -> TRUE

\* "key in x" for an object x
HasKey(x, key) == x.t = "object" /\ \E i \in DOMAIN x.v : x.v[i].k = key

\* x.key for a non-nullish x: a missing property reads as undefined
Get(x, key) ==
  IF HasKey(x, key)
  THEN x.v[CHOOSE i \in DOMAIN x.v : x.v[i].k = key].val
  ELSE Undef

\* x?.key
OptGet(x, key) == IF Nullish(x) THEN Undef ELSE Get(x, key)

\* a ?? b
Coalesce(a, b) == IF Nullish(a) THEN b ELSE a

\* { ...a, ...b } for objects a and b (spreading null or undefined adds
\* nothing): a's keys keep their place and take b's value where b has the
\* key, b's other keys follow in b's order.
Spread(a, b) ==
  LET ap == IF a.t = "object" THEN a.v ELSE <<>>
      bp == IF b.t = "object" THEN b.v ELSE <<>>
      over == [i \in DOMAIN ap |->
                 IF HasKey(b, ap[i].k) THEN P(ap[i].k, Get(b, ap[i].k)) ELSE ap[i]]
      IsNew(p) == ~ \E i \in DOMAIN ap : ap[i].k = p.k
  IN Obj(over \o SelectSeq(bp, IsNew))

\* parts.join(sep) for a sequence of strings
RECURSIVE JoinWith(_, _)
JoinWith(parts, sep) ==
  IF Len(parts) = 0 THEN ""
  ELSE IF Len(parts) = 1 THEN parts[1]
  ELSE parts[1] \o sep \o JoinWith(Tail(parts), sep)

\* s.slice(0, n) for a string s
Slice(s, n) == IF Len(s) <= n THEN s ELSE SubSeq(s, 1, n)

\* JSON.stringify(x), as a JavaScript value: a string, or undefined for
\* undefined. An undefined property is left out, an undefined array element
\* is written null. The strings of the model need no escaping.
RECURSIVE StringifyText(_)
StringifyText(x) ==
  CASE x.t = "undefined" -> "null"
    [] x.t = "null" -> "null"
    [] x.t = "string" -> "\"" \o x.v \o "\""
    [] x.t = "number" -> ToString(x.v)
    [] x.t = "array" ->
         "[" \o JoinWith([i \in DOMAIN x.v |-> StringifyText(x.v[i])], ",") \o "]"
    [] OTHER ->
         LET Defined(p) == p.val.t # "undefined"
             kept == SelectSeq(x.v, Defined)
         IN "{" \o JoinWith([i \in DOMAIN kept |->
                    "\"" \o kept[i].k \o "\":" \o StringifyText(kept[i].val)], ",")
                \o "}"

JSONstringify(x) == IF x.t = "undefined" THEN Undef ELSE Str(StringifyText(x))

(***************************************************************************)
(* ChatModel.extractChoiceText (chatmodel.ts 35-69).                       *)
(***************************************************************************)

\* Mutant: the top-level text is read before message.content.
SelectedContent_TextFirst(choice) ==
  Coalesce(Coalesce(Coalesce(OptGet(choice, "text"),
                             OptGet(OptGet(choice, "message"), "content")),
                    OptGet(OptGet(choice, "delta"), "content")),
           OptGet(choice, "content"))

\* const content = choice?.message?.content ?? choice?.delta?.content
\*                 ?? choice?.text ?? choice?.content
SelectedContent(choice) ==
  Coalesce(Coalesce(Coalesce(OptGet(OptGet(choice, "message"), "content"),
                             OptGet(OptGet(choice, "delta"), "content")),
                    OptGet(choice, "text")),
           OptGet(choice, "content"))

\* Mutant: a part's content field is read before its text field.
PartFragments_ContentFirst(item) ==
  IF TypeOf(item) = "string" THEN <<item.v>>
  ELSE IF TypeOf(OptGet(item, "content")) = "string" THEN <<OptGet(item, "content").v>>
  ELSE IF TypeOf(OptGet(item, "text")) = "string" THEN <<OptGet(item, "text").v>>
  ELSE <<>>

\* What one item of the content array pushes on parts: one string or nothing.
PartFragments(item) ==
  IF TypeOf(item) = "string" THEN <<item.v>>
  ELSE IF TypeOf(OptGet(item, "text")) = "string" THEN <<OptGet(item, "text").v>>
  ELSE IF TypeOf(OptGet(item, "content")) = "string" THEN <<OptGet(item, "content").v>>
  ELSE <<>>

\* parts after the for loop over the content array
RECURSIVE CollectParts(_)
CollectParts(items) ==
  IF Len(items) = 0 THEN <<>>
  ELSE PartFragments(items[1]) \o CollectParts(Tail(items))

\* The text of a choice: a string value, or Undef.
extractChoiceText(choice) ==
  LET content == SelectedContent(choice) IN
  IF TypeOf(content) = "string" THEN content
  ELSE IF IsArray(content) THEN
    LET joined == JoinWith(CollectParts(content.v), "")
    IN IF Len(joined) > 0 THEN Str(joined) ELSE Undef
  ELSE IF Truthy(content) /\ TypeOf(content) = "object" THEN
    IF TypeOf(Get(content, "text")) = "string" THEN Get(content, "text") ELSE Undef
  ELSE Undef

(***************************************************************************)
(* Pure parts of ChatModel.query.                                          *)
(***************************************************************************)
SnippetLimit == 500
HttpOk == 200

\* const defaultPostOptions (chatmodel.ts 12-16)
defaultPostOptions ==
  Obj(<<P("max_tokens", Num(1000)), P("temperature", Num(0)), P("top_p", Num(1))>>)

\* The model name given to the constructor.
model == "gpt-test"

\* JSON.parse on the strings the model gives authHeaders: the parsed value, or
\* the SyntaxError JSON.parse throws.
JSONparse(s) ==
  CASE s = "{\"Authorization\":\"Bearer k\"}" ->
         [ok |-> TRUE, val |-> Obj(<<P("Authorization", Str("Bearer k"))>>), message |-> ""]
    [] s = "null" -> [ok |-> TRUE, val |-> Null, message |-> ""]
    [] OTHER -> [ok |-> FALSE, val |-> Undef, message |-> "Unexpected token in JSON"]

\* String(x), as new Error(x) and a template string make it
RECURSIVE ToJSString(_)
ToJSString(x) ==
  CASE x.t = "undefined" -> "undefined"
    [] x.t = "null" -> "null"
    [] x.t = "string" -> x.v
    [] x.t = "number" -> ToString(x.v)
    [] x.t = "array" -> JoinWith([i \in DOMAIN x.v |->
                           IF Nullish(x.v[i]) THEN "" ELSE ToJSString(x.v[i])], ",")
    [] OTHER -> "[object Object]"

\* An Error: its message, and (for the reader of a trace) which throw made it.
Failure(kind, message) == [kind |-> kind, message |-> message]
NoFailure == Failure("none", "")

\* A response of axios.post, and the value standing for "no response yet".
Response(status, statusText, data) ==
  [status |-> status, statusText |-> statusText, data |-> data]
NoResponse == Response(0, "", Undef)

\* Mutant: the instance options are spread last and override the call's.
MergeOptions_InstanceLast(inst, req) == Spread(Spread(defaultPostOptions, req), inst)

\* const options = {...defaultPostOptions, ...this.instanceOptions, ...requestPostOptions}
MergeOptions(inst, req) == Spread(Spread(defaultPostOptions, inst), req)

\* const postOptions = {model, messages: [...], ...options}
BuildPostOptions(p, opts) ==
  Spread(Obj(<<P("model", Str(model)),
               P("messages",
                 Arr(<<Obj(<<P("role", Str("system")),
                             P("content", Str("You are a programming assistant."))>>),
                       Obj(<<P("role", Str("user")), P("content", Str(p))>>)>>))>>),
         opts)

\* const headers = {"Content-Type": "application/json", ...JSON.parse(this.authHeaders)}
BuildHeaders(parsed) ==
  Spread(Obj(<<P("Content-Type", Str("application/json"))>>), parsed)

\* A performance measure: the index, in the timeline, of the mark it starts
\* at, and its name; and the value standing for "no measure yet".
Measure(start, name) == [start |-> start, name |-> name]
NoMeasure == Measure(0, "")

\* the name of the performance measure
MeasureName(p, opts) ==
  "llm-query:" \o StringifyText(Spread(opts, Obj(<<P("promptLength", Num(Len(p)))>>)))

\* Mutant: the choices check is made before the error-field check.
Validate_ChoicesBeforeError(r) ==
  IF r.status # HttpOk THEN
    Failure("status", "Request failed with status " \o ToString(r.status)
                        \o " and message " \o r.statusText)
  ELSE IF ~Truthy(r.data) THEN Failure("empty", "Response data is empty")
  ELSE IF ~IsArray(Get(r.data, "choices")) THEN
    Failure("choices", "Unexpected LLM response format: expected choices array, got "
                         \o TypeOf(Get(r.data, "choices")))
  ELSE IF Truthy(Get(r.data, "error")) THEN
    Failure("error", ToJSString(Get(r.data, "error")))
  ELSE NoFailure

\* The four checks of query on the response (chatmodel.ts 143-161): the Error
\* thrown, or NoFailure.
Validate(r) ==
  IF r.status # HttpOk THEN
    Failure("status", "Request failed with status " \o ToString(r.status)
                        \o " and message " \o r.statusText)
  ELSE IF ~Truthy(r.data) THEN Failure("empty", "Response data is empty")
  ELSE IF Truthy(Get(r.data, "error")) THEN
    Failure("error", ToJSString(Get(r.data, "error")))
  ELSE IF ~IsArray(Get(r.data, "choices")) THEN
    Failure("choices", "Unexpected LLM response format: expected choices array, got "
                         \o TypeOf(Get(r.data, "choices")))
  ELSE NoFailure

\* The for loop over json.choices (chatmodel.ts 163-172): the set completions
\* and the counter skipped after it.
RECURSIVE CollectChoices(_)
CollectChoices(choices) ==
  IF Len(choices) = 0 THEN [completions |-> {}, skipped |-> 0]
  ELSE LET before == CollectChoices(SubSeq(choices, 1, Len(choices) - 1))
           t == extractChoiceText(choices[Len(choices)])
       IN IF TypeOf(t) # "string"
          THEN [completions |-> before.completions, skipped |-> before.skipped + 1]
          ELSE [completions |-> before.completions \cup {t.v}, skipped |-> before.skipped]

\* Mutant: the example is the last choice without text, not the first.
FindSkipped_Last(choices) ==
  LET Absent(i) == TypeOf(extractChoiceText(choices[i])) # "string"
  IN IF \E i \in DOMAIN choices : Absent(i)
     THEN choices[CHOOSE i \in DOMAIN choices :
                    Absent(i) /\ \A j \in DOMAIN choices : j > i => ~Absent(j)]
     ELSE Undef

\* json.choices.find(c => typeof extractChoiceText(c) !== "string")
FindSkipped(choices) ==
  LET Absent(i) == TypeOf(extractChoiceText(choices[i])) # "string"
  IN IF \E i \in DOMAIN choices : Absent(i)
     THEN choices[CHOOSE i \in DOMAIN choices :
                    Absent(i) /\ \A j \in DOMAIN choices : j < i => ~Absent(j)]
     ELSE Undef

\* JSON.stringify(first)?.slice(0, 500)
Snippet(first) ==
  LET s == JSONstringify(first)
  IN IF Nullish(s) THEN Undef ELSE Str(Slice(s.v, SnippetLimit))

\* The warnings of console.warn, as records.
SkippedWarning(n, snippet) ==
  [kind |-> "skipped", skipped |-> n, message |-> ToJSString(snippet)]

\* Mutant: the warning of completions does not carry the message of the Error.
FailedWarning_NoMessage(err) == [kind |-> "failed", skipped |-> 0, message |-> ""]

\* console.warn(`Failed to get completions: ${err.message}`)
FailedWarning(err) == [kind |-> "failed", skipped |-> 0, message |-> err.message]

\* What query logs after the loop (chatmodel.ts 174-182).
SkippedWarnings(choices) ==
  LET n == CollectChoices(choices).skipped
  IN IF n > 0 THEN <<SkippedWarning(n, Snippet(FindSkipped(choices)))>> ELSE <<>>

(***************************************************************************)
(* State.                                                                  *)
(***************************************************************************)
VARIABLES
  \* the extraction harness: one Choice, and what extractChoiceText made of it
  choice, text, stage,
  \* the client: the constructor's arguments and environment
  nrAttempts, authHeaders, instanceOptions,
  \* per call: where it stands, which method was called, and its arguments
  pc, entry, prompt, requestPostOptions,
  \* per call: the locals of query
  headers, options, postOptions, res, completions,
  \* per call: the attempts retry has started, the admissions of the rate
  \* limiter, the requests sent, the failure of the latest attempt
  tries, admissions, httpAttempts, attemptFailure,
  \* per call: the Error query threw, the set completions returned, the
  \* warnings logged, the performance measure recorded
  failure, result, warnings, measures,
  \* the performance timeline: who made each llm-query-start mark, in order
  marks

xvars == <<choice, text, stage>>
clientvars == <<nrAttempts, authHeaders, instanceOptions>>
callvars ==
  <<pc, entry, prompt, requestPostOptions, headers, options, postOptions, res,
    completions, tries, admissions, httpAttempts, attemptFailure, failure, result,
    warnings, measures, marks>>
vars == <<xvars, clientvars, callvars>>

Calls == 1..NumCalls

\* No call has been made on the client.
IdleCalls ==
  /\ pc = [c \in Calls |-> "idle"]
  /\ entry = [c \in Calls |-> "none"]
  /\ prompt = [c \in Calls |-> ""]
  /\ requestPostOptions = [c \in Calls |-> Undef]
  /\ headers = [c \in Calls |-> Undef]
  /\ options = [c \in Calls |-> Undef]
  /\ postOptions = [c \in Calls |-> Undef]
  /\ res = [c \in Calls |-> NoResponse]
  /\ completions = [c \in Calls |-> {}]
  /\ tries = [c \in Calls |-> 0]
  /\ admissions = [c \in Calls |-> 0]
  /\ httpAttempts = [c \in Calls |-> 0]
  /\ attemptFailure = [c \in Calls |-> NoFailure]
  /\ failure = [c \in Calls |-> NoFailure]
  /\ result = [c \in Calls |-> {}]
  /\ warnings = [c \in Calls |-> <<>>]
  /\ measures = [c \in Calls |-> NoMeasure]
  /\ marks = <<>>

(***************************************************************************)
(* Inputs of the extraction harness.                                       *)
(***************************************************************************)
SeqsUpTo(S, n) == UNION {[1..k -> S] : k \in 0..n}

\* Values a content path may hold, besides being absent.
PathVals ==
  {Null, Str("x"), Str("y"), Str(""), Num(7), Arr(<<Str("a")>>), Arr(<<>>),
   Obj(<<P("text", Str("z"))>>)}

\* The items a content array is made of.
Parts ==
  {Str("a"), Str(""), Null,
   Obj(<<P("type", Str("text")), P("text", Str("b"))>>),
   Obj(<<P("content", Str("c"))>>),
   Obj(<<P("text", Str("b")), P("content", Str("c"))>>),
   Obj(<<P("text", Num(1)), P("content", Str("c"))>>)}

\* A property that is absent (no pair) or holds one of the values.
Slot(key, vals) == {<<>>} \cup {<<P(key, x)>> : x \in vals}

\* message and delta: absent, null, an object without content, or an object
\* with content.
Holder(key, vals) ==
  Slot(key, {Null, Obj(<<>>)} \cup {Obj(<<P("content", x)>>) : x \in vals})

\* Choices whose four paths each hold any of PathVals or nothing.
PathChoices ==
  {Obj(m \o d \o t \o c) :
     m \in Holder("message", PathVals), d \in Holder("delta", PathVals),
     t \in Slot("text", PathVals), c \in Slot("content", PathVals)}

PartArrays == {Arr(items) : items \in SeqsUpTo(Parts, MaxParts)}

\* Choices with an array of parts at one of the four paths.
PartChoices ==
  {Obj(m \o t) : m \in Holder("message", PartArrays), t \in Slot("text", {Str("y")})}
  \cup {Obj(d) : d \in Holder("delta", PartArrays)}
  \cup {Obj(t) : t \in Slot("text", PartArrays)}
  \cup {Obj(c) : c \in Slot("content", PartArrays)}

ExtractInputs == PathChoices \cup PartChoices \cup {Null, Undef, Str("raw")}

(***************************************************************************)
(* The extraction harness: a Choice is drawn, extractChoiceText is applied *)
(* to it once.                                                             *)
(***************************************************************************)
InitExtract ==
  /\ choice \in ExtractInputs
  /\ text = Undef
  /\ stage = "input"
  /\ nrAttempts = 1
  /\ authHeaders = "null"
  /\ instanceOptions = Obj(<<>>)
  /\ IdleCalls

Extract ==
  /\ stage = "input"
  /\ text' = extractChoiceText(choice)
  /\ stage' = "extracted"
  /\ UNCHANGED <<choice, clientvars, callvars>>

NextExtract == Extract

SpecExtract == InitExtract /\ [][NextExtract]_vars

(***************************************************************************)
(* What the environment of a run may supply: the options of a query call,  *)
(* the temperatures of a completions call, the Errors of axios.post, and   *)
(* its responses.                                                          *)
(***************************************************************************)
Prompts == {"write a test"}
HttpErrors ==
  {Failure("http", "Request failed with status code 500"),
   Failure("http", "timeout of 0ms exceeded")}
AuthHeaderInputs == {"{\"Authorization\":\"Bearer k\"}", "null", "Bearer k"}

\* Choices of a response: text at message.content, the same text at the
\* top-level text, another text as an array of parts, no text, and no text
\* with a serialisation longer than the snippet.
RECURSIVE Pad(_)
Pad(n) ==
  IF n = 0 THEN ""
  ELSE LET h == Pad(n \div 2) IN h \o h \o (IF n % 2 = 1 THEN "x" ELSE "")

ChoiceT1 == Obj(<<P("message", Obj(<<P("role", Str("assistant")), P("content", Str("t1"))>>))>>)
ChoiceT1Text == Obj(<<P("text", Str("t1"))>>)
ChoiceT2 == Obj(<<P("text", Str("t2"))>>)
ChoiceNoText == Obj(<<P("message", Obj(<<P("content", Null)>>)), P("finish_reason", Str("length"))>>)
ChoiceLongNoText == Obj(<<P("index", Num(1)), P("logprobs", Str(Pad(SnippetLimit + 20)))>>)

\* The bodies with the given error fields and choices fields (a slot may be
\* absent), and the responses without a usable body.
Bodies(errors, choicesVals) ==
  {Obj(e \o c) : e \in Slot("error", errors), c \in Slot("choices", choicesVals)}

ChoiceArrays(kinds, n) == {Arr(cs) : cs \in SeqsUpTo(kinds, n)}

\* Responses of the main specification: every combination of the four
\* conditions query checks, and short choices arrays.
FlowResponses ==
  {Response(HttpOk, "OK", b) :
     b \in Bodies({Null, Str("boom")},
                  {Str("none")} \cup ChoiceArrays({ChoiceT1, ChoiceT2, ChoiceNoText}, MaxChoices))
           \cup {Undef, Str(""), Str("<html>")}}
  \cup {Response(500, "Internal Server Error", b) :
          b \in {Undef, Obj(<<P("error", Str("boom"))>>), Obj(<<P("choices", Arr(<<ChoiceT1>>))>>)}}
  \cup {Response(204, "No Content", Undef)}

FlowEnv ==
  [responses |-> FlowResponses,
   errors |-> HttpErrors,
   requestOptions |-> {Obj(<<>>), Obj(<<P("temperature", Num(2))>>)},
   temperatures |-> {Num(1)}]

(***************************************************************************)
(* The composition of query (chatmodel.ts 128-134):                        *)
(*   retry(() => rateLimiter.next(() => axios.post(...)), nrAttempts)      *)
(***************************************************************************)

\* Mutant: one attempt more than nrAttempts.
RetryBudget_PlusOne == nrAttempts + 1

\* The attempt budget query hands to retry.
RetryBudget == nrAttempts

\* Mutant: the rate limiter wraps retry, so a retried attempt is sent without
\* an admission of its own.
UnitOfWorkPc_LimiterOutside(c) == IF tries[c] = 0 THEN "waitAdmit" ELSE "admitted"

\* Where a call stands when retry starts its unit of work: the unit of work is
\* rateLimiter.next(...), so it waits for an admission.
UnitOfWorkPc(c) == "waitAdmit"

\* Mutant: the checks are made inside the retried unit of work.
ValidationFailurePc_Retried(c) == IF tries[c] < RetryBudget THEN UnitOfWorkPc(c) ELSE "rejected"

\* Where a call stands when a check of the response throws: the throw is
\* outside retry, so query rejects.
ValidationFailurePc(c) == "rejected"

(***************************************************************************)
(* The steps of a call c.                                                  *)
(***************************************************************************)

\* query(p, req) up to its first suspension (chatmodel.ts 94-134): the
\* headers are parsed, the options merged, the mark made, the body built, and
\* retry starts the first attempt.
QueryStart(c, p, req) ==
  LET parsed == JSONparse(authHeaders) IN
  /\ prompt' = [prompt EXCEPT ![c] = p]
  /\ requestPostOptions' = [requestPostOptions EXCEPT ![c] = req]
  /\ IF ~parsed.ok
     THEN /\ failure' = [failure EXCEPT ![c] = Failure("auth", parsed.message)]
          /\ pc' = [pc EXCEPT ![c] = "rejected"]
          /\ UNCHANGED <<headers, options, postOptions, marks, tries>>
     ELSE /\ headers' = [headers EXCEPT ![c] = BuildHeaders(parsed.val)]
          /\ options' = [options EXCEPT ![c] = MergeOptions(instanceOptions, req)]
          /\ marks' = Append(marks, c)
          /\ postOptions' = [postOptions EXCEPT ![c] =
                               BuildPostOptions(p, MergeOptions(instanceOptions, req))]
          /\ tries' = [tries EXCEPT ![c] = 1]
          /\ pc' = [pc EXCEPT ![c] = UnitOfWorkPc(c)]
          /\ UNCHANGED failure
  /\ UNCHANGED <<res, completions, admissions, httpAttempts, attemptFailure, result,
                 warnings, measures>>

\* A caller calls query(prompt, requestPostOptions).
CallQuery(c, env) ==
  /\ pc[c] = "idle"
  /\ entry' = [entry EXCEPT ![c] = "query"]
  /\ \E p \in Prompts, req \in env.requestOptions : QueryStart(c, p, req)
  /\ UNCHANGED <<xvars, clientvars>>

\* A caller calls completions(prompt, temperature), which calls
\* query(prompt, { temperature }) (chatmodel.ts 195-197).
CallCompletions(c, env) ==
  /\ pc[c] = "idle"
  /\ entry' = [entry EXCEPT ![c] = "completions"]
  /\ \E p \in Prompts, temperature \in env.temperatures :
       QueryStart(c, p, Obj(<<P("temperature", temperature)>>))
  /\ UNCHANGED <<xvars, clientvars>>

\* The rate limiter admits the unit of work of c.
Admit(c) ==
  /\ pc[c] = "waitAdmit"
  /\ admissions' = [admissions EXCEPT ![c] = @ + 1]
  /\ pc' = [pc EXCEPT ![c] = "admitted"]
  /\ UNCHANGED <<xvars, clientvars, entry, prompt, requestPostOptions, headers, options,
                 postOptions, res, completions, tries, httpAttempts, attemptFailure,
                 failure, result, warnings, measures, marks>>

\* The admitted work runs: axios.post(apiEndpoint, postOptions, { headers }).
Send(c) ==
  /\ pc[c] = "admitted"
  /\ httpAttempts' = [httpAttempts EXCEPT ![c] = @ + 1]
  /\ pc' = [pc EXCEPT ![c] = "inflight"]
  /\ UNCHANGED <<xvars, clientvars, entry, prompt, requestPostOptions, headers, options,
                 postOptions, res, completions, tries, admissions, attemptFailure,
                 failure, result, warnings, measures, marks>>

\* axios.post rejects with e; the rate limiter passes the failure on; retry
\* starts another attempt while the budget allows, and else rejects with the
\* failure of this last attempt, which query does not catch.
HttpFail(c, env) ==
  /\ pc[c] = "inflight"
  /\ \E e \in env.errors :
       /\ attemptFailure' = [attemptFailure EXCEPT ![c] = e]
       /\ IF tries[c] < RetryBudget
          THEN /\ tries' = [tries EXCEPT ![c] = @ + 1]
               /\ pc' = [pc EXCEPT ![c] = UnitOfWorkPc(c)]
               /\ UNCHANGED failure
          ELSE /\ failure' = [failure EXCEPT ![c] = e]
               /\ pc' = [pc EXCEPT ![c] = "rejected"]
               /\ UNCHANGED tries
  /\ UNCHANGED <<xvars, clientvars, entry, prompt, requestPostOptions, headers, options,
                 postOptions, res, completions, admissions, httpAttempts, result,
                 warnings, measures, marks>>

\* axios.post resolves with r; the rate limiter and retry pass it on, and
\* query has its res.
HttpReturn(c, env) ==
  /\ pc[c] = "inflight"
  /\ \E r \in env.responses : res' = [res EXCEPT ![c] = r]
  /\ pc' = [pc EXCEPT ![c] = "resumed"]
  /\ UNCHANGED <<xvars, clientvars, entry, prompt, requestPostOptions, headers, options,
                 postOptions, completions, tries, admissions, httpAttempts,
                 attemptFailure, failure, result, warnings, measures, marks>>

\* query after its await (chatmodel.ts 136-183): the measure from the latest
\* llm-query-start mark, the four checks, the loop over the choices, the
\* warning about skipped choices.
QueryResume(c) ==
  /\ pc[c] = "resumed"
  /\ measures' = [measures EXCEPT ![c] =
                    Measure(Len(marks), MeasureName(prompt[c], options[c]))]
  /\ IF Validate(res[c]) # NoFailure
     THEN /\ failure' = [failure EXCEPT ![c] = Validate(res[c])]
          /\ pc' = [pc EXCEPT ![c] = ValidationFailurePc(c)]
          /\ UNCHANGED <<completions, warnings>>
     ELSE LET choices == Get(res[c].data, "choices").v IN
          /\ completions' = [completions EXCEPT ![c] = CollectChoices(choices).completions]
          /\ warnings' = [warnings EXCEPT ![c] = @ \o SkippedWarnings(choices)]
          /\ pc' = [pc EXCEPT ![c] = "resolved"]
          /\ UNCHANGED failure
  /\ UNCHANGED <<xvars, clientvars, entry, prompt, requestPostOptions, headers, options,
                 postOptions, res, tries, admissions, httpAttempts, attemptFailure,
                 result, marks>>

\* completions after its await (chatmodel.ts 196-204): the set of query is
\* copied and returned, or the Error of query is caught, logged, and an empty
\* set returned.
CompletionsReturn(c) ==
  /\ entry[c] = "completions"
  /\ pc[c] \in {"resolved", "rejected"}
  /\ IF pc[c] = "resolved"
     THEN /\ result' = [result EXCEPT ![c] = completions[c]]
          /\ UNCHANGED warnings
     ELSE /\ warnings' = [warnings EXCEPT ![c] = Append(@, FailedWarning(failure[c]))]
          /\ result' = [result EXCEPT ![c] = {}]
  /\ pc' = [pc EXCEPT ![c] = "returned"]
  /\ UNCHANGED <<xvars, clientvars, entry, prompt, requestPostOptions, headers, options,
                 postOptions, res, completions, tries, admissions, httpAttempts,
                 attemptFailure, failure, measures, marks>>

Step(c, env) ==
  \/ CallQuery(c, env)
  \/ CallCompletions(c, env)
  \/ Admit(c)
  \/ Send(c)
  \/ HttpFail(c, env)
  \/ HttpReturn(c, env)
  \/ QueryResume(c)
  \/ CompletionsReturn(c)

\* The extraction harness is not part of a run of the client.
NoExtract == choice = Null /\ text = Undef /\ stage = "off"

(***************************************************************************)
(* Spec: one call on a client, with any attempt budget up to MaxAttempts.  *)
(***************************************************************************)
Init ==
  /\ NoExtract
  /\ nrAttempts \in 1..MaxAttempts
  /\ authHeaders \in AuthHeaderInputs
  /\ instanceOptions \in {Obj(<<>>), Obj(<<P("max_tokens", Num(256))>>)}
  /\ IdleCalls

Next == \E c \in {1} : Step(c, FlowEnv)

Spec == Init /\ [][Next]_vars

(***************************************************************************)
(* SpecAgg: one call whose responses pass the checks and carry longer      *)
(* choices arrays, of every kind of choice.                                *)
(***************************************************************************)
AggResponses ==
  {Response(HttpOk, "OK", Obj(<<P("choices", a)>>)) :
     a \in ChoiceArrays({ChoiceT1, ChoiceT1Text, ChoiceT2, ChoiceNoText, ChoiceLongNoText},
                        MaxAggChoices)}

AggEnv ==
  [responses |-> AggResponses,
   errors |-> {Failure("http", "socket hang up")},
   requestOptions |-> {Obj(<<>>)},
   temperatures |-> {Num(0)}]

InitAgg ==
  /\ NoExtract
  /\ nrAttempts \in {1, 2}
  /\ authHeaders = "{\"Authorization\":\"Bearer k\"}"
  /\ instanceOptions = Obj(<<>>)
  /\ IdleCalls

NextAgg == \E c \in {1} : Step(c, AggEnv)

SpecAgg == InitAgg /\ [][NextAgg]_vars

(***************************************************************************)
(* SpecOpt: one call, with every instance-level and call-level option      *)
(* mapping over the three keys; a key may be absent, undefined or a number.*)
(***************************************************************************)
OptionObjects(vals) ==
  {Obj(m \o t \o p) :
     m \in Slot("max_tokens", vals), t \in Slot("temperature", vals),
     p \in Slot("top_p", vals)}

OptEnv ==
  [responses |-> {Response(HttpOk, "OK", Obj(<<P("choices", Arr(<<ChoiceT1>>))>>)),
                  Response(500, "Internal Server Error", Undef)},
   errors |-> {Failure("http", "socket hang up")},
   requestOptions |-> OptionObjects({Undef, Num(22)}),
   temperatures |-> {Undef, Num(0), Num(2)}]

InitOpt ==
  /\ NoExtract
  /\ nrAttempts = 1
  /\ authHeaders \in AuthHeaderInputs
  /\ instanceOptions \in OptionObjects({Undef, Num(11)})
  /\ IdleCalls

NextOpt == \E c \in {1} : Step(c, OptEnv)

SpecOpt == InitOpt /\ [][NextOpt]_vars

(***************************************************************************)
(* SpecConc: NumCalls calls on one client, interleaved at their            *)
(* suspensions (the admission of the rate limiter, the HTTP call, the      *)
(* await of completions).                                                  *)
(***************************************************************************)
ConcEnv ==
  [responses |-> {Response(HttpOk, "OK", Obj(<<P("choices", Arr(<<ChoiceT1>>))>>)),
                  Response(HttpOk, "OK", Obj(<<P("choices", Arr(<<ChoiceT2, ChoiceNoText>>))>>))},
   errors |-> {Failure("http", "socket hang up")},
   requestOptions |-> {Obj(<<>>)},
   temperatures |-> {Num(1)}]

InitConc ==
  /\ NoExtract
  /\ nrAttempts = 2
  /\ authHeaders = "{\"Authorization\":\"Bearer k\"}"
  /\ instanceOptions = Obj(<<>>)
  /\ IdleCalls

NextConc == \E c \in Calls : Step(c, ConcEnv)

SpecConc == InitConc /\ [][NextConc]_vars

(***************************************************************************)
(* Claims about extractChoiceText, checked under SpecExtract.              *)
(***************************************************************************)

\* The values at the four paths, in the order message.content, delta.content,
\* text, content.
PathValues(c) ==
  <<OptGet(OptGet(c, "message"), "content"), OptGet(OptGet(c, "delta"), "content"),
    OptGet(c, "text"), OptGet(c, "content")>>

IsString(x) == x.t = "string"
Present(x) == x.t \notin {"undefined", "null"}

\* The first index of pv whose value satisfies Test, 0 when there is none.
FirstWhere(pv, Test(_)) ==
  IF \E i \in DOMAIN pv : Test(pv[i])
  THEN CHOOSE i \in DOMAIN pv : Test(pv[i]) /\ \A j \in 1..(i - 1) : ~Test(pv[j])
  ELSE 0

\* C5 as stated: whenever at least one of the four paths holds a string,
\* extraction returns the first of them, in path order, that is a string.
C5_FirstStringWins ==
  stage = "extracted" =>
    LET pv == PathValues(choice)
        i == FirstWhere(pv, IsString)
    IN i # 0 => text = pv[i]

\* C5 amended: extraction selects the first of the four paths whose value is
\* neither null nor undefined. If that value is a string it is returned (so
\* message.content = "x" with text = "y" extracts "x"); if it is not a string
\* the result is decided by that value alone, whatever strings later paths hold.
C5_FirstPresentWins ==
  stage = "extracted" =>
    LET pv == PathValues(choice)
        i == FirstWhere(pv, Present)
    IN /\ i # 0 /\ IsString(pv[i]) => text = pv[i]
       /\ i # 0 /\ ~IsString(pv[i]) =>
            text = extractChoiceText(Obj(<<P("content", pv[i])>>))
       /\ i = 0 => text = Undef
       /\ (pv[1] = Str("x") /\ pv[3] = Str("y")) => text = Str("x")

\* A Choice with message.content = "x" and text = "y" has been extracted to "x".
C5_Witness ==
  /\ stage = "extracted"
  /\ PathValues(choice)[1] = Str("x")
  /\ PathValues(choice)[3] = Str("y")
  /\ text = Str("x")

\* The fragment the claim gives a part: the part itself if a string, else its
\* text field if a string, else its content field if a string, else nothing.
C6_Fragment(part) ==
  CASE part.t = "string" -> <<part.v>>
    [] part.t = "object" /\ HasKey(part, "text") /\ Get(part, "text").t = "string" ->
         <<Get(part, "text").v>>
    [] part.t = "object" /\ HasKey(part, "content") /\ Get(part, "content").t = "string" ->
         <<Get(part, "content").v>>
    [] OTHER -> <<>>

\* The fragments of a sequence of parts, in sequence order.
RECURSIVE C6_Fragments(_)
C6_Fragments(items) ==
  IF items = <<>> THEN <<>>
  ELSE C6_Fragments(SubSeq(items, 1, Len(items) - 1)) \o C6_Fragment(items[Len(items)])

RECURSIVE C6_Concat(_)
C6_Concat(frags) == IF frags = <<>> THEN "" ELSE Head(frags) \o C6_Concat(Tail(frags))

\* C6 as stated: for a selected content that is a sequence of parts the result
\* is the concatenation of the fragments, and is absent exactly when no
\* fragment was recovered.
C6_AbsentIffNoFragment ==
  (stage = "extracted" /\ IsArray(SelectedContent(choice))) =>
    LET frags == C6_Fragments(SelectedContent(choice).v)
    IN /\ (text = Undef) <=> (frags = <<>>)
       /\ frags # <<>> => text = Str(C6_Concat(frags))

\* C6 amended: for a selected content that is a sequence of parts the result
\* is the concatenation, in order and with no separator, of one fragment per
\* part, and is absent exactly when that concatenation is the empty string
\* (no fragment was recovered, or every recovered fragment is empty).
C6_AbsentIffEmptyConcat ==
  (stage = "extracted" /\ IsArray(SelectedContent(choice))) =>
    LET items == SelectedContent(choice).v
        cat == C6_Concat(C6_Fragments(items))
    IN /\ text = (IF cat = "" THEN Undef ELSE Str(cat))
       /\ items = <<>> => text = Undef
       /\ items = <<Str("a"), Obj(<<P("type", Str("text")), P("text", Str("b"))>>),
                    Obj(<<P("content", Str("c"))>>)>> => text = Str("abc")

\* content = ["a", {text: "b"}, {content: "c"}] has been extracted to "abc".
C6_Witness ==
  /\ stage = "extracted"
  /\ IsArray(SelectedContent(choice))
  /\ SelectedContent(choice).v =
       <<Str("a"), Obj(<<P("type", Str("text")), P("text", Str("b"))>>),
         Obj(<<P("content", Str("c"))>>)>>
  /\ text = Str("abc")

(***************************************************************************)
(* Claims about one call, checked under Spec.                              *)
(***************************************************************************)
Settled(c) == pc[c] \in {"resolved", "rejected", "returned"}
QueryResolved(c) == pc[c] \in {"resolved", "returned"} /\ failure[c] = NoFailure
FailedWarnings(c) == SelectSeq(warnings[c], LAMBDA w : w.kind = "failed")
SkipWarnings(c) == SelectSeq(warnings[c], LAMBDA w : w.kind = "skipped")

C2_RetryWrapsRateLimit ==
  \A c \in Calls :
    /\ httpAttempts[c] <= admissions[c]
    /\ admissions[c] <= httpAttempts[c] + 1
    /\ pc[c] # "admitted" => admissions[c] = httpAttempts[c]
    /\ pc[c] \notin {"waitAdmit", "admitted"} => admissions[c] = tries[c]
    /\ (nrAttempts = 3 /\ tries[c] = 3 /\ Settled(c) /\ res[c] # NoResponse) =>
         /\ admissions[c] = 3
         /\ httpAttempts[c] = 3
         /\ attemptFailure[c] # NoFailure
         /\ failure[c] = Validate(res[c])
         /\ failure[c] = NoFailure =>
              completions[c] = CollectChoices(Get(res[c].data, "choices").v).completions

\* Budget 3, two failed attempts, then a response that query parsed.
C2_Witness ==
  /\ nrAttempts = 3
  /\ tries[1] = 3
  /\ admissions[1] = 3
  /\ httpAttempts[1] = 3
  /\ attemptFailure[1] # NoFailure
  /\ pc[1] = "resolved"
  /\ completions[1] = {"t1", "t2"}

\* C3: the HTTP call is attempted at most nrAttempts times; once an attempt
\* has succeeded no attempt is pending or in flight; and a query that failed
\* with the failure of an attempt made all nrAttempts attempts and failed with
\* the failure of the last one, unchanged.
C3_AtMostBudgetAttempts ==
  \A c \in Calls :
    /\ httpAttempts[c] <= nrAttempts
    /\ tries[c] <= nrAttempts
    /\ res[c] # NoResponse => pc[c] \notin {"waitAdmit", "admitted", "inflight"}
    /\ failure[c].kind = "http" =>
         /\ httpAttempts[c] = nrAttempts
         /\ failure[c] = attemptFailure[c]
         /\ res[c] = NoResponse
    /\ (pc[c] = "rejected" /\ res[c] = NoResponse /\ failure[c].kind # "auth") =>
         failure[c].kind = "http"

\* All attempts of a budget of 3 failed and query failed with the last failure.
C3_Witness ==
  /\ nrAttempts = 3
  /\ httpAttempts[1] = 3
  /\ pc[1] = "rejected"
  /\ failure[1] = Failure("http", "timeout of 0ms exceeded")
  /\ attemptFailure[1] = failure[1]

\* The condition of the response the claim C4 makes query fail on first
\* ("none": query does not fail), reading "carries an error field" as the
\* presence of the key.
C4_Body(r) == r.data.t = "object" \/ (r.data.t = "string" /\ r.data.v # "")
C4_ExpectedByPresence(r) ==
  CASE r.status # 200 -> "status"
    [] ~C4_Body(r) -> "empty"
    [] HasKey(r.data, "error") -> "error"
    [] ~(HasKey(r.data, "choices") /\ Get(r.data, "choices").t = "array") -> "choices"
    [] OTHER -> "none"

\* The same, reading it as an error field with a truthy value.
C4_ExpectedByTruth(r) ==
  CASE r.status # 200 -> "status"
    [] ~C4_Body(r) -> "empty"
    [] HasKey(r.data, "error")
       /\ Get(r.data, "error") \notin {Null, Undef, Str(""), Num(0)} -> "error"
    [] ~(HasKey(r.data, "choices") /\ Get(r.data, "choices").t = "array") -> "choices"
    [] OTHER -> "none"

\* C4 as stated: query fails whenever the response has a status other than
\* 200, no body, a body carrying an error field, or choices that are no array
\* (each condition alone is enough); and else it does not fail.
C4_FailsOnAnyErrorField ==
  \A c \in Calls :
    (Settled(c) /\ res[c] # NoResponse) =>
      /\ C4_ExpectedByPresence(res[c]) # "none" => failure[c] # NoFailure
      /\ C4_ExpectedByPresence(res[c]) = "none" => failure[c] = NoFailure

\* C4 amended: query fails whenever the response has a status other than 200,
\* or no body (res.data falsy), or a body whose error field is truthy, or
\* choices that are no array; the failure is that of the earliest condition
\* that holds, in this order, with the message of that condition; if none
\* holds query does not fail and returns a set. An error field that is null
\* (or otherwise falsy) is not a failure.
C4_FailsOnTruthyErrorField ==
  \A c \in Calls :
    (Settled(c) /\ res[c] # NoResponse) =>
      /\ failure[c].kind = C4_ExpectedByTruth(res[c])
      /\ failure[c].kind = "none" <=> failure[c] = NoFailure
      /\ failure[c] = NoFailure => (entry[c] = "query" => pc[c] = "resolved")
      /\ failure[c] # NoFailure => completions[c] = {}
      /\ (failure[c] # NoFailure /\ entry[c] = "query") => pc[c] = "rejected"
      /\ failure[c].kind = "status" =>
           failure[c].message = "Request failed with status " \o ToString(res[c].status)
                                  \o " and message " \o res[c].statusText
      /\ failure[c].kind = "empty" => failure[c].message = "Response data is empty"
      /\ (failure[c].kind = "error" /\ Get(res[c].data, "error").t = "string") =>
           failure[c].message = Get(res[c].data, "error").v

\* A response with status 500 and an error field: the status failure is raised.
C4_Witness ==
  /\ pc[1] = "rejected"
  /\ res[1] = Response(500, "Internal Server Error", Obj(<<P("error", Str("boom"))>>))
  /\ failure[1].kind = "status"

\* C10, in one step: once query has its response, no step admits or sends for
\* that call again.
C10_NoStepAfterResponse ==
  \A c \in Calls :
    res[c] # NoResponse =>
      /\ admissions'[c] = admissions[c]
      /\ httpAttempts'[c] = httpAttempts[c]
      /\ tries'[c] = tries[c]
      /\ res'[c] = res[c]

\* C10, of a state: a query that failed on malformed authHeaders made no
\* admission and no attempt, and a query that failed a check is rejected with
\* nothing pending.
C10_FinalState ==
  \A c \in Calls :
    /\ failure[c].kind = "auth" =>
         admissions[c] = 0 /\ httpAttempts[c] = 0 /\ tries[c] = 0 /\ marks = <<>>
    /\ ~JSONparse(authHeaders).ok => admissions[c] = 0 /\ httpAttempts[c] = 0
    /\ failure[c].kind \in {"status", "empty", "error", "choices"} =>
         pc[c] \in {"rejected", "returned"}

\* C10: a validation failure is final and is not retried: once the resilient
\* call has returned a response the call makes no further admission and no
\* further HTTP attempt, whatever is left of the budget; and malformed
\* authHeaders fail query before any admission or attempt.
C10_ValidationFailureIsFinal == [][C10_NoStepAfterResponse]_vars /\ []C10_FinalState

\* A check failed on the first attempt of a budget of 3, and query is rejected
\* after that single attempt.
C10_Witness ==
  /\ nrAttempts = 3
  /\ pc[1] = "rejected"
  /\ failure[1].kind = "error"
  /\ tries[1] = 1
  /\ admissions[1] = 1
  /\ httpAttempts[1] = 1

(***************************************************************************)
(* C7, checked under SpecAgg.                                              *)
(***************************************************************************)
C7_Absent(ch) == extractChoiceText(ch).t # "string"

\* C7: for a checked response with N choices of which M extract to absent,
\* query returns exactly the set of the texts of the other choices, of size at
\* most N - M, empty when N = 0 or M = N; it logs the skipped-choices warning
\* once when M > 0 and not at all when M = 0; the warning counts M and its
\* example is the first choice, in order, that extracted to absent, serialised
\* and cut to at most SnippetLimit characters.
C7_SkipAccounting ==
  \A c \in Calls :
    QueryResolved(c) =>
      LET choices == Get(res[c].data, "choices").v
          N == Len(choices)
          absent == {i \in 1..N : C7_Absent(choices[i])}
          M == Cardinality(absent)
      IN /\ completions[c] = {extractChoiceText(choices[i]).v : i \in (1..N) \ absent}
         /\ Cardinality(completions[c]) <= N - M
         /\ (N = 0 \/ M = N) => completions[c] = {}
         /\ Len(SkipWarnings(c)) = (IF M > 0 THEN 1 ELSE 0)
         /\ M > 0 =>
              LET w == SkipWarnings(c)[1]
                  i0 == CHOOSE i \in absent : \A j \in absent : i <= j
                  full == StringifyText(choices[i0])
              IN /\ w.skipped = M
                 /\ Len(w.message) <= 500
                 /\ w.message = (IF Len(full) <= 500 THEN full ELSE SubSeq(full, 1, 500))
         /\ choices = <<ChoiceT1, ChoiceT1, ChoiceT2>> => completions[c] = {"t1", "t2"}

\* A response with a text, then a long choice without text, then a short one:
\* one text, one warning, whose example is the long choice cut to the limit.
C7_Witness ==
  /\ pc[1] = "resolved"
  /\ Get(res[1].data, "choices").v = <<ChoiceT1, ChoiceLongNoText, ChoiceNoText>>
  /\ completions[1] = {"t1"}
  /\ Len(warnings[1]) = 1
  /\ warnings[1][1].skipped = 2
  /\ Len(warnings[1][1].message) = 500

(***************************************************************************)
(* C8, checked under SpecOpt.                                              *)
(***************************************************************************)
C8_Default(key) ==
  CASE key = "max_tokens" -> Num(1000)
    [] key = "temperature" -> Num(0)
    [] key = "top_p" -> Num(1)

\* C8: for each of max_tokens, temperature and top_p the value query sends is
\* the call-level value if the call-level mapping has the key, else the
\* instance-level value if the constructor's mapping has the key, else the
\* default; a key present with the value undefined counts as present.
\* completions supplies exactly the key temperature at call level.
C8_OptionOverlay ==
  \A c \in Calls :
    /\ tries[c] >= 1 =>
         \A key \in {"max_tokens", "temperature", "top_p"} :
           /\ HasKey(postOptions[c], key)
           /\ Get(postOptions[c], key) =
                (IF HasKey(requestPostOptions[c], key) THEN Get(requestPostOptions[c], key)
                 ELSE IF HasKey(instanceOptions, key) THEN Get(instanceOptions, key)
                 ELSE C8_Default(key))
           /\ Get(options[c], key) = Get(postOptions[c], key)
    /\ tries[c] >= 1 =>
         /\ Get(postOptions[c], "model") = Str(model)
         /\ Get(postOptions[c], "messages").v[2] =
              Obj(<<P("role", Str("user")), P("content", Str(prompt[c]))>>)
    /\ entry[c] = "completions" =>
         {requestPostOptions[c].v[i].k : i \in DOMAIN requestPostOptions[c].v} = {"temperature"}

\* A request was sent whose call-level temperature is undefined over an
\* instance-level number, and whose max_tokens comes from the instance.
C8_Witness ==
  /\ httpAttempts[1] = 1
  /\ entry[1] = "completions"
  /\ Get(requestPostOptions[1], "temperature") = Undef
  /\ Get(instanceOptions, "temperature") = Num(11)
  /\ Get(instanceOptions, "max_tokens") = Num(11)
  /\ ~HasKey(instanceOptions, "top_p")
  /\ Get(postOptions[1], "temperature") = Undef
  /\ Get(postOptions[1], "max_tokens") = Num(11)
  /\ Get(postOptions[1], "top_p") = Num(1)

(***************************************************************************)
(* C9, checked under SpecConc.                                             *)
(***************************************************************************)

\* C9: concurrent calls on one client are independent: the outcome of each
\* call is decided by its own arguments and response, and the measure a call
\* records starts at the llm-query-start mark that same call made.
C9_CallsIndependent ==
  \A c \in Calls :
    /\ Settled(c) /\ res[c] # NoResponse => failure[c] = Validate(res[c])
    /\ QueryResolved(c) =>
         completions[c] = CollectChoices(Get(res[c].data, "choices").v).completions
    /\ tries[c] >= 1 => options[c] = MergeOptions(instanceOptions, requestPostOptions[c])
    /\ measures[c] # NoMeasure => marks[measures[c].start] = c

====
